---------------------------- MODULE Spec2Model ----------------------------
(***************************************************************************)
(* Model of the architecture-diagram renderer of app/ascii_diagrammer.py:  *)
(* the concept catalog (detection tables, glyph table, layer table), the   *)
(* extraction parse_components, the layout build_diagram_text and the two  *)
(* entry points create_architecture_diagram and generate_ascii_diagram;    *)
(* and of the knowledge-base query query_best_practices of app/tools.py.   *)
(*                                                                         *)
(* Python strings are TLA+ strings, measured by Len as Python's len()      *)
(* measures them.  TLA+ strings hold neither non-ASCII characters nor the  *)
(* backquote, so every glyph literal of the source is written as an ASCII  *)
(* stand-in with as many characters as len() gives for the literal in the  *)
(* source file, and the fence marker (three backquotes) is written as      *)
(* three apostrophes.  A regular expression is written as the sequence of  *)
(* its alternatives, each the sequence of its atoms: concatenating the     *)
(* atoms and joining the alternatives with | gives the source's pattern.   *)
(***************************************************************************)
EXTENDS Integers, Sequences, FiniteSets, TLC

VARIABLES
    plan_text,      \* argument: the plan text of the call
    platform,       \* argument: the platform token of the call
    pc,             \* "input" while only the arguments are chosen, then the operation that ran
    calls,          \* the functions the operation entered, in order
    table_used,     \* parse_components' platform_patterns: the key of the table it scanned
    components,     \* the list parse_components returned (build_diagram_text's argument)
    title,          \* build_diagram_text's title argument
    box_width,      \* build_diagram_text's local box_width (0 when no box was drawn)
    diagram_lines,  \* build_diagram_text's local diagram_lines
    result,         \* the string the operation returned ("" while there is none)
    generator,      \* self: the ASCIIDiagramGenerator instance the methods are called on
    frames,         \* per caller, the arguments and local variables of its call in flight
    invocations,    \* the number of calls made so far
    es_client,      \* tools.py: the module's Elasticsearch client, or "None"
    query_platform, \* query_best_practices' argument target_platform
    requirement,    \* query_best_practices' second argument
    tool_pc,        \* "idle", "called", then "returned" or "raised"
    searches,       \* the searches issued on es_client, in order
    response,       \* what the search did: its response, or the exception it raised
    tool_result     \* the string query_best_practices returned

vars == <<plan_text, platform, pc, calls, table_used, components, title, box_width,
          diagram_lines, result, generator, frames, invocations,
          es_client, query_platform, requirement, tool_pc, searches, response, tool_result>>

\* the variables of query_best_practices
tool_vars == <<es_client, query_platform, requirement, tool_pc, searches, response,
               tool_result>>

\* the variables of the diagram renderer
render_vars == <<plan_text, platform, pc, calls, table_used, components, title, box_width,
                 diagram_lines, result, generator, frames, invocations>>

---------------------------------------------------------------------------
(* Bounds of the model *)

\* A plan text is the concatenation of at most MaxFragments fragments.
MaxFragments == 3

\* The callers make at most MaxInvocations calls in all.
MaxInvocations == 3

\* ... of at most MaxTextLen characters in all.
MaxTextLen == 8

---------------------------------------------------------------------------
(* Python's str operations *)

LowerCase == "abcdefghijklmnopqrstuvwxyz"
UpperCase == "ABCDEFGHIJKLMNOPQRSTUVWXYZ"
Digits == "0123456789"

CharAt(s, i) == SubSeq(s, i, i)

CharsOf(s) == {CharAt(s, i) : i \in 1..Len(s)}

IndexIn(s, c) == CHOOSE i \in 1..Len(s) : CharAt(s, i) = c

\* str.lower() / str.upper(), one character
UpperChars == CharsOf(UpperCase)

LowerChars == CharsOf(LowerCase)

lower_char(c) ==
    IF c \in UpperChars THEN CharAt(LowerCase, IndexIn(UpperCase, c)) ELSE c

upper_char(c) ==
    IF c \in LowerChars THEN CharAt(UpperCase, IndexIn(LowerCase, c)) ELSE c

RECURSIVE lower(_)
lower(s) == IF s = "" THEN "" ELSE lower_char(Head(s)) \o lower(Tail(s))

RECURSIVE upper(_)
upper(s) == IF s = "" THEN "" ELSE upper_char(Head(s)) \o upper(Tail(s))

\* s * n
RECURSIVE Repeat(_, _)
Repeat(s, n) == IF n <= 0 THEN "" ELSE s \o Repeat(s, n - 1)

\* s[1:-1]
SliceInner(s) == IF Len(s) <= 2 THEN "" ELSE SubSeq(s, 2, Len(s) - 1)

\* str.center(width): CPython pads left with marg/2 + (marg & width & 1)
center(s, width) ==
    IF Len(s) >= width THEN s
    ELSE LET marg == width - Len(s)
             left == (marg \div 2) + (IF marg % 2 = 1 /\ width % 2 = 1 THEN 1 ELSE 0)
         IN  Repeat(" ", left) \o s \o Repeat(" ", marg - left)

\* str.ljust(width)
ljust(s, width) == IF Len(s) >= width THEN s ELSE s \o Repeat(" ", width - Len(s))

\* "\n".join(lines)
RECURSIVE join_lines(_)
join_lines(lines) ==
    IF lines = <<>> THEN ""
    ELSE IF Len(lines) = 1 THEN lines[1]
    ELSE lines[1] \o "\n" \o join_lines(Tail(lines))

\* Python's comparison of two strings (by code point; all characters here are ASCII)
AsciiOrder == " ()/0123456789ABCDEFGHIJKLMNOPQRSTUVWXYZabcdefghijklmnopqrstuvwxyz"

RECURSIVE str_lt(_, _)
str_lt(a, b) ==
    IF b = "" THEN FALSE
    ELSE IF a = "" THEN TRUE
    ELSE IF Head(a) = Head(b) THEN str_lt(Tail(a), Tail(b))
    ELSE IndexIn(AsciiOrder, Head(a)) < IndexIn(AsciiOrder, Head(b))

---------------------------------------------------------------------------
(* Python's re.search over the patterns of the catalog *)

\* \w and \s of a str pattern, over the characters of the model
WordChars == CharsOf(LowerCase) \cup CharsOf(UpperCase) \cup CharsOf(Digits) \cup {"_"}

is_word_char(c) == c \in WordChars

is_space(c) == c \in {" ", "\n", "\t"}

word_at(text, i) == i >= 1 /\ i <= Len(text) /\ is_word_char(CharAt(text, i))

\* \b at the position before text[i]
is_boundary(text, i) == word_at(text, i - 1) # word_at(text, i)

\* the positions of text at which \b holds
boundaries(text) == {i \in 1..(Len(text) + 1) : is_boundary(text, i)}

\* whether the atoms k.. of one alternative match text from position i on;
\* bnd is boundaries(text)
RECURSIVE match_here(_, _, _, _, _)
match_here(alt, k, text, bnd, i) ==
    IF k > Len(alt) THEN TRUE
    ELSE IF alt[k] = "\\b" THEN i \in bnd /\ match_here(alt, k + 1, text, bnd, i)
    ELSE IF alt[k] = "\\s?" THEN
         \/ (i <= Len(text) /\ is_space(CharAt(text, i)) /\ match_here(alt, k + 1, text, bnd, i + 1))
         \/ match_here(alt, k + 1, text, bnd, i)
    ELSE IF Len(alt[k]) = 2 /\ CharAt(alt[k], 2) = "?" THEN
         \/ (i <= Len(text) /\ CharAt(text, i) = CharAt(alt[k], 1) /\ match_here(alt, k + 1, text, bnd, i + 1))
         \/ match_here(alt, k + 1, text, bnd, i)
    ELSE /\ i + Len(alt[k]) - 1 <= Len(text)
         /\ SubSeq(text, i, i + Len(alt[k]) - 1) = alt[k]
         /\ match_here(alt, k + 1, text, bnd, i + Len(alt[k]))

\* re.search(pattern, text) is not None; bnd is boundaries(text)
re_search_in(pattern, text, bnd) ==
    \E a \in 1..Len(pattern) : \E i \in 1..(Len(text) + 1) : match_here(pattern[a], 1, text, bnd, i)

re_search(pattern, text) == re_search_in(pattern, text, boundaries(text))

---------------------------------------------------------------------------
(* The catalog: self.chars, self.service_icons, self.platform_services,    *)
(* self.layer_priority                                                     *)

\* self.chars (each literal is three characters long in the source)
chars_horizontal == "-h-"
chars_vertical == "|v|"
chars_arrow_down == "\\d/"

\* the corner and tee literals of build_diagram_text (three characters each)
box_top_left == ",tl"
box_top_right == "tr,"
box_tee_left == "|t-"
box_tee_right == "-t|"
box_bottom_left == "\\bl"
box_bottom_right == "br'"

\* the glyph returned when the glyph table has no entry
unknown_icon == "{?}"

\* dict.get(key, default)
dict_get(d, key, default) == IF key \in DOMAIN d THEN d[key] ELSE default

\* self.service_icons as __init__ builds it
service_icons ==
    ("user" :> "{us}") @@
    ("internet" :> "{in}") @@
    ("dns" :> "{dn}") @@
    ("cdn" :> "{cd}") @@
    ("load_balancer" :> "{lbal}") @@
    ("api_gateway" :> "{ag}") @@
    ("compute" :> "{compu}") @@
    ("serverless" :> "{z}") @@
    ("database_sql" :> "{dbsql}") @@
    ("database_nosql" :> "{no}") @@
    ("cache" :> "{ca}") @@
    ("storage_object" :> "{so}") @@
    ("storage_block" :> "{sb}") @@
    ("queue" :> "{qu}") @@
    ("notification" :> "{nt}") @@
    ("vpc" :> "{vp}") @@
    ("security" :> "{se}") @@
    ("iam" :> "{ia}") @@
    ("monitoring" :> "{mo}") @@
    ("container_registry" :> "{cr}") @@
    ("ci_cd" :> "{cicd}") @@
    ("data_warehouse" :> "{dw}") @@
    ("analytics" :> "{an}") @@
    ("auth" :> "{au}")

\* self.service_icons.get(concept, unknown)
service_icons_get(self, concept) == dict_get(self.service_icons, concept, unknown_icon)

\* the layer given when the layer table has no entry
unplaced_layer == 99

\* self.layer_priority as __init__ builds it
layer_priority ==
    ("user" :> 0) @@
    ("internet" :> 0) @@
    ("dns" :> 1) @@
    ("cdn" :> 1) @@
    ("load_balancer" :> 2) @@
    ("api_gateway" :> 2) @@
    ("auth" :> 2) @@
    ("compute" :> 3) @@
    ("serverless" :> 3) @@
    ("cache" :> 4) @@
    ("queue" :> 4) @@
    ("notification" :> 4) @@
    ("database_sql" :> 5) @@
    ("database_nosql" :> 5) @@
    ("data_warehouse" :> 5) @@
    ("storage_object" :> 6) @@
    ("storage_block" :> 6) @@
    ("analytics" :> 6) @@
    ("vpc" :> 7) @@
    ("security" :> 7) @@
    ("iam" :> 7) @@
    ("monitoring" :> 7) @@
    ("container_registry" :> 8) @@
    ("ci_cd" :> 8)

\* (mutant) a concept without a layer placed first
layer_priority_get_first(self, concept) == dict_get(self.layer_priority, concept, 0)

\* self.layer_priority.get(concept, 99)
layer_priority_get(self, concept) == dict_get(self.layer_priority, concept, unplaced_layer)

\* self.platform_services['aws']
aws_services ==
  <<
    [concept |-> "user", name |-> "Users",
     pattern |-> << <<"\\b", "user", "s?", "\\b">>, <<"\\b", "client", "s?", "\\b">>, <<"\\b", "customer", "s?", "\\b">> >>],
    [concept |-> "internet", name |-> "Internet",
     pattern |-> << <<"\\b", "internet", "\\b">>, <<"\\b", "web", "\\b">>, <<"\\b", "public", "\\b">> >>],
    [concept |-> "dns", name |-> "Route 53",
     pattern |-> << <<"\\b", "route", "\\s?", "53", "\\b">>, <<"\\b", "dns", "\\b">>, <<"\\b", "domain", "\\b">> >>],
    [concept |-> "cdn", name |-> "CloudFront",
     pattern |-> << <<"\\b", "cloudfront", "\\b">>, <<"\\b", "cdn", "\\b">>, <<"\\b", "content delivery", "\\b">> >>],
    [concept |-> "load_balancer", name |-> "ELB/ALB",
     pattern |-> << <<"\\b", "load", "\\s?", "balancer", "\\b">>, <<"\\b", "elb", "\\b">>, <<"\\b", "alb", "\\b">>, <<"\\b", "nlb", "\\b">> >>],
    [concept |-> "api_gateway", name |-> "API Gateway",
     pattern |-> << <<"\\b", "api", "\\s?", "gateway", "\\b">>, <<"\\b", "api", "\\b">> >>],
    [concept |-> "compute", name |-> "EC2 Instance",
     pattern |-> << <<"\\b", "ec2", "\\b">>, <<"\\b", "server", "\\b">>, <<"\\b", "instance", "\\b">>, <<"\\b", "compute", "\\b">> >>],
    [concept |-> "serverless", name |-> "Lambda",
     pattern |-> << <<"\\b", "lambda", "\\b">>, <<"\\b", "function", "\\b">> >>],
    [concept |-> "database_sql", name |-> "RDS",
     pattern |-> << <<"\\b", "rds", "\\b">>, <<"\\b", "database", "\\b">>, <<"\\b", "mysql", "\\b">>, <<"\\b", "postgres", "\\b">>, <<"\\b", "aurora", "\\b">> >>],
    [concept |-> "database_nosql", name |-> "DynamoDB",
     pattern |-> << <<"\\b", "dynamodb", "\\b">>, <<"\\b", "nosql", "\\b">> >>],
    [concept |-> "cache", name |-> "ElastiCache",
     pattern |-> << <<"\\b", "elasticache", "\\b">>, <<"\\b", "cache", "\\b">>, <<"\\b", "redis", "\\b">>, <<"\\b", "memcached", "\\b">> >>],
    [concept |-> "storage_object", name |-> "S3 Bucket",
     pattern |-> << <<"\\b", "s3", "\\b">>, <<"\\b", "bucket", "\\b">>, <<"\\b", "object storage", "\\b">> >>],
    [concept |-> "storage_block", name |-> "EBS Volume",
     pattern |-> << <<"\\b", "ebs", "\\b">>, <<"\\b", "block storage", "\\b">> >>],
    [concept |-> "queue", name |-> "SQS",
     pattern |-> << <<"\\b", "sqs", "\\b">>, <<"\\b", "queue", "\\b">> >>],
    [concept |-> "notification", name |-> "SNS",
     pattern |-> << <<"\\b", "sns", "\\b">>, <<"\\b", "notification", "\\b">>, <<"\\b", "topic", "\\b">> >>],
    [concept |-> "vpc", name |-> "VPC",
     pattern |-> << <<"\\b", "vpc", "\\b">>, <<"\\b", "network", "\\b">> >>],
    [concept |-> "security", name |-> "Security",
     pattern |-> << <<"\\b", "security group", "\\b">>, <<"\\b", "waf", "\\b">>, <<"\\b", "shield", "\\b">> >>],
    [concept |-> "iam", name |-> "IAM",
     pattern |-> << <<"\\b", "iam", "\\b">>, <<"\\b", "identity", "\\b">>, <<"\\b", "role", "\\b">>, <<"\\b", "user", "\\b">> >>],
    [concept |-> "monitoring", name |-> "CloudWatch",
     pattern |-> << <<"\\b", "cloudwatch", "\\b">>, <<"\\b", "monitor", "\\b">>, <<"\\b", "log", "\\b">>, <<"\\b", "metric", "\\b">> >>],
    [concept |-> "container_registry", name |-> "ECR",
     pattern |-> << <<"\\b", "ecr", "\\b">>, <<"\\b", "container registry", "\\b">> >>],
    [concept |-> "ci_cd", name |-> "CI/CD",
     pattern |-> << <<"\\b", "codebuild", "\\b">>, <<"\\b", "codepipeline", "\\b">>, <<"\\b", "codecommit", "\\b">>, <<"\\b", "codedeploy", "\\b">>, <<"\\b", "ci/cd", "\\b">> >>],
    [concept |-> "auth", name |-> "Cognito",
     pattern |-> << <<"\\b", "cognito", "\\b">>, <<"\\b", "authentication", "\\b">>, <<"\\b", "auth", "\\b">> >>]
  >>

\* self.platform_services['gcp']
gcp_services ==
  <<
    [concept |-> "user", name |-> "Users",
     pattern |-> << <<"\\b", "user", "s?", "\\b">>, <<"\\b", "client", "s?", "\\b">>, <<"\\b", "customer", "s?", "\\b">> >>],
    [concept |-> "internet", name |-> "Internet",
     pattern |-> << <<"\\b", "internet", "\\b">>, <<"\\b", "web", "\\b">>, <<"\\b", "public", "\\b">> >>],
    [concept |-> "dns", name |-> "Cloud DNS",
     pattern |-> << <<"\\b", "cloud dns", "\\b">>, <<"\\b", "dns", "\\b">> >>],
    [concept |-> "cdn", name |-> "Cloud CDN",
     pattern |-> << <<"\\b", "cloud cdn", "\\b">>, <<"\\b", "cdn", "\\b">> >>],
    [concept |-> "load_balancer", name |-> "Load Balancer",
     pattern |-> << <<"\\b", "cloud load balancing", "\\b">>, <<"\\b", "load balancer", "\\b">> >>],
    [concept |-> "api_gateway", name |-> "API Gateway",
     pattern |-> << <<"\\b", "api gateway", "\\b">>, <<"\\b", "apigee", "\\b">> >>],
    [concept |-> "compute", name |-> "Compute Engine",
     pattern |-> << <<"\\b", "compute engine", "\\b">>, <<"\\b", "vm", "\\b">>, <<"\\b", "instance", "\\b">>, <<"\\b", "gce", "\\b">> >>],
    [concept |-> "serverless", name |-> "Cloud Functions/Run",
     pattern |-> << <<"\\b", "cloud functions", "\\b">>, <<"\\b", "cloud run", "\\b">>, <<"\\b", "functions", "\\b">> >>],
    [concept |-> "database_sql", name |-> "Cloud SQL/Spanner",
     pattern |-> << <<"\\b", "cloud sql", "\\b">>, <<"\\b", "spanner", "\\b">>, <<"\\b", "database", "\\b">>, <<"\\b", "mysql", "\\b">>, <<"\\b", "postgres", "\\b">> >>],
    [concept |-> "database_nosql", name |-> "Firestore/Bigtable",
     pattern |-> << <<"\\b", "firestore", "\\b">>, <<"\\b", "datastore", "\\b">>, <<"\\b", "bigtable", "\\b">>, <<"\\b", "nosql", "\\b">> >>],
    [concept |-> "cache", name |-> "Memorystore",
     pattern |-> << <<"\\b", "memorystore", "\\b">>, <<"\\b", "cache", "\\b">>, <<"\\b", "redis", "\\b">>, <<"\\b", "memcached", "\\b">> >>],
    [concept |-> "storage_object", name |-> "Cloud Storage",
     pattern |-> << <<"\\b", "cloud storage", "\\b">>, <<"\\b", "bucket", "\\b">>, <<"\\b", "gcs", "\\b">> >>],
    [concept |-> "storage_block", name |-> "Persistent Disk",
     pattern |-> << <<"\\b", "persistent disk", "\\b">>, <<"\\b", "disk", "\\b">> >>],
    [concept |-> "queue", name |-> "Pub/Sub",
     pattern |-> << <<"\\b", "pub/sub", "\\b">>, <<"\\b", "queue", "\\b">>, <<"\\b", "topic", "\\b">> >>],
    [concept |-> "notification", name |-> "Pub/Sub",
     pattern |-> << <<"\\b", "pub/sub", "\\b">>, <<"\\b", "notification", "\\b">> >>],
    [concept |-> "vpc", name |-> "VPC Network",
     pattern |-> << <<"\\b", "vpc network", "\\b">>, <<"\\b", "network", "\\b">> >>],
    [concept |-> "security", name |-> "Firewall/Armor",
     pattern |-> << <<"\\b", "firewall rule", "\\b">>, <<"\\b", "cloud armor", "\\b">>, <<"\\b", "security", "\\b">> >>],
    [concept |-> "iam", name |-> "IAM",
     pattern |-> << <<"\\b", "iam", "\\b">>, <<"\\b", "identity", "\\b">>, <<"\\b", "service account", "\\b">> >>],
    [concept |-> "monitoring", name |-> "Cloud Monitoring",
     pattern |-> << <<"\\b", "cloud monitoring", "\\b">>, <<"\\b", "cloud logging", "\\b">>, <<"\\b", "operations", "\\b">> >>],
    [concept |-> "container_registry", name |-> "Artifact Registry",
     pattern |-> << <<"\\b", "artifact registry", "\\b">>, <<"\\b", "container registry", "\\b">> >>],
    [concept |-> "ci_cd", name |-> "Cloud Build",
     pattern |-> << <<"\\b", "cloud build", "\\b">>, <<"\\b", "cloud deploy", "\\b">>, <<"\\b", "cloud source repositories", "\\b">> >>],
    [concept |-> "data_warehouse", name |-> "BigQuery",
     pattern |-> << <<"\\b", "bigquery", "\\b">>, <<"\\b", "data warehouse", "\\b">> >>],
    [concept |-> "analytics", name |-> "Dataflow/Dataproc",
     pattern |-> << <<"\\b", "dataflow", "\\b">>, <<"\\b", "dataproc", "\\b">>, <<"\\b", "analytics", "\\b">> >>],
    [concept |-> "auth", name |-> "Identity Platform",
     pattern |-> << <<"\\b", "identity platform", "\\b">>, <<"\\b", "firebase auth", "\\b">>, <<"\\b", "authentication", "\\b">> >>]
  >>

\* self.platform_services['azure']
azure_services ==
  <<
    [concept |-> "user", name |-> "Users",
     pattern |-> << <<"\\b", "user", "s?", "\\b">>, <<"\\b", "client", "s?", "\\b">>, <<"\\b", "customer", "s?", "\\b">> >>],
    [concept |-> "internet", name |-> "Internet",
     pattern |-> << <<"\\b", "internet", "\\b">>, <<"\\b", "web", "\\b">>, <<"\\b", "public", "\\b">> >>],
    [concept |-> "dns", name |-> "Azure DNS",
     pattern |-> << <<"\\b", "azure dns", "\\b">>, <<"\\b", "dns", "\\b">> >>],
    [concept |-> "cdn", name |-> "Azure CDN",
     pattern |-> << <<"\\b", "azure cdn", "\\b">>, <<"\\b", "cdn", "\\b">> >>],
    [concept |-> "load_balancer", name |-> "Load Balancer",
     pattern |-> << <<"\\b", "load balancer", "\\b">>, <<"\\b", "application gateway", "\\b">> >>],
    [concept |-> "api_gateway", name |-> "API Management",
     pattern |-> << <<"\\b", "api management", "\\b">>, <<"\\b", "api", "\\b">> >>],
    [concept |-> "compute", name |-> "Virtual Machine",
     pattern |-> << <<"\\b", "virtual machine", "\\b">>, <<"\\b", "vm", "\\b">>, <<"\\b", "instance", "\\b">> >>],
    [concept |-> "serverless", name |-> "Azure Functions",
     pattern |-> << <<"\\b", "azure functions", "\\b">>, <<"\\b", "functions", "\\b">>, <<"\\b", "container apps", "\\b">> >>],
    [concept |-> "database_sql", name |-> "Azure SQL DB",
     pattern |-> << <<"\\b", "azure sql database", "\\b">>, <<"\\b", "sql server", "\\b">>, <<"\\b", "database", "\\b">> >>],
    [concept |-> "database_nosql", name |-> "Cosmos DB",
     pattern |-> << <<"\\b", "cosmos db", "\\b">>, <<"\\b", "nosql", "\\b">> >>],
    [concept |-> "cache", name |-> "Redis Cache",
     pattern |-> << <<"\\b", "azure cache for redis", "\\b">>, <<"\\b", "cache", "\\b">>, <<"\\b", "redis", "\\b">> >>],
    [concept |-> "storage_object", name |-> "Blob Storage",
     pattern |-> << <<"\\b", "blob storage", "\\b">>, <<"\\b", "container", "\\b">>, <<"\\b", "object storage", "\\b">> >>],
    [concept |-> "storage_block", name |-> "Managed Disk",
     pattern |-> << <<"\\b", "managed disk", "\\b">>, <<"\\b", "disk", "\\b">> >>],
    [concept |-> "queue", name |-> "Queue/Service Bus",
     pattern |-> << <<"\\b", "azure queue storage", "\\b">>, <<"\\b", "service bus", "\\b">>, <<"\\b", "queue", "\\b">> >>],
    [concept |-> "notification", name |-> "Event Grid/Hub",
     pattern |-> << <<"\\b", "event grid", "\\b">>, <<"\\b", "notification hub", "\\b">> >>],
    [concept |-> "vpc", name |-> "Virtual Network",
     pattern |-> << <<"\\b", "virtual network", "\\b">>, <<"\\b", "vnet", "\\b">>, <<"\\b", "network", "\\b">> >>],
    [concept |-> "security", name |-> "NSG/Firewall",
     pattern |-> << <<"\\b", "network security group", "\\b">>, <<"\\b", "nsg", "\\b">>, <<"\\b", "azure firewall", "\\b">>, <<"\\b", "waf", "\\b">> >>],
    [concept |-> "iam", name |-> "Entra ID (AD)",
     pattern |-> << <<"\\b", "azure active directory", "\\b">>, <<"\\b", "entra id", "\\b">>, <<"\\b", "rbac", "\\b">>, <<"\\b", "identity", "\\b">> >>],
    [concept |-> "monitoring", name |-> "Azure Monitor",
     pattern |-> << <<"\\b", "azure monitor", "\\b">>, <<"\\b", "log analytics", "\\b">>, <<"\\b", "monitor", "\\b">> >>],
    [concept |-> "container_registry", name |-> "ACR",
     pattern |-> << <<"\\b", "azure container registry", "\\b">>, <<"\\b", "acr", "\\b">> >>],
    [concept |-> "ci_cd", name |-> "Azure DevOps",
     pattern |-> << <<"\\b", "azure devops", "\\b">>, <<"\\b", "pipelines", "\\b">>, <<"\\b", "github actions", "\\b">> >>],
    [concept |-> "data_warehouse", name |-> "Synapse Analytics",
     pattern |-> << <<"\\b", "synapse analytics", "\\b">>, <<"\\b", "data warehouse", "\\b">> >>],
    [concept |-> "analytics", name |-> "Data Factory",
     pattern |-> << <<"\\b", "data factory", "\\b">>, <<"\\b", "databricks", "\\b">>, <<"\\b", "analytics", "\\b">> >>],
    [concept |-> "auth", name |-> "Entra External ID",
     pattern |-> << <<"\\b", "azure active directory b2c", "\\b">>, <<"\\b", "entra external id", "\\b">>, <<"\\b", "auth", "\\b">> >>]
  >>

\* self.platform_services
platform_services == [aws |-> aws_services, gcp |-> gcp_services, azure |-> azure_services]

\* the instance __init__ builds
ASCIIDiagramGenerator ==
    [service_icons |-> service_icons,
     platform_services |-> platform_services,
     layer_priority |-> layer_priority]

\* the generic table parse_components falls back to (its patterns carry no \b)
generic_services ==
  <<
    [concept |-> "user", name |-> "User",
     pattern |-> << <<"user", "s?">> >>],
    [concept |-> "load_balancer", name |-> "Load Balancer",
     pattern |-> << <<"load balancer">> >>],
    [concept |-> "compute", name |-> "Compute",
     pattern |-> << <<"server">>, <<"compute">>, <<"instance">> >>],
    [concept |-> "database_sql", name |-> "Database",
     pattern |-> << <<"database">>, <<"sql">> >>],
    [concept |-> "storage_object", name |-> "Storage",
     pattern |-> << <<"storage">>, <<"bucket">> >>]
  >>

---------------------------------------------------------------------------
(* parse_components *)

\* (mutant) the lookup without platform.lower()
table_key_case_sensitive(self, platform_arg) ==
    IF platform_arg \in DOMAIN self.platform_services THEN platform_arg ELSE "generic"

\* which table parse_components scans: self.platform_services.get(platform.lower()),
\* or the generic table when that is None
table_key(self, platform_arg) ==
    IF lower(platform_arg) \in DOMAIN self.platform_services THEN lower(platform_arg) ELSE "generic"

\* (mutant) no generic table behind an unknown platform: nothing to scan
detection_table_no_fallback(self, platform_arg) ==
    IF table_key(self, platform_arg) = "generic" THEN <<>>
    ELSE self.platform_services[table_key(self, platform_arg)]

detection_table(self, platform_arg) ==
    IF table_key(self, platform_arg) = "generic" THEN generic_services
    ELSE self.platform_services[table_key(self, platform_arg)]

\* (mutant) the entries taken in an order that differs from call to call
items_order_by_invocation(table) ==
    IF invocations % 2 = 0 THEN [k \in 1..Len(table) |-> k]
    ELSE [k \in 1..Len(table) |-> Len(table) + 1 - k]

\* (mutant) a scan that starts behind the first entry
items_order_from_second(table) == [k \in 1..(Len(table) - 1) |-> k + 1]

\* the order in which platform_patterns.items() yields the entries of a table
items_order(table) == [k \in 1..Len(table) |-> k]

concepts_of(comps) == {comps[j].concept : j \in 1..Len(comps)}

\* the loop over platform_patterns.items(), the entries taken in the given order;
\* acc is the list components, whose concepts are the set added_concepts
RECURSIVE scan_loop(_, _, _, _, _, _, _)
scan_loop(self, table, order, k, plan_lower, bnd, acc) ==
    IF k > Len(order) THEN acc
    ELSE LET concept == table[order[k]].concept
             details == table[order[k]]
         IN  IF re_search_in(details.pattern, plan_lower, bnd) /\ concept \notin concepts_of(acc)
             THEN scan_loop(self, table, order, k + 1, plan_lower, bnd,
                            Append(acc, [concept |-> concept,
                                         name |-> details.name,
                                         icon |-> service_icons_get(self, concept),
                                         layer |-> layer_priority_get(self, concept)]))
             ELSE scan_loop(self, table, order, k + 1, plan_lower, bnd, acc)

\* the sort key (x['layer'], x['name']): a's key <= b's key
sort_key_le(a, b) ==
    \/ a.layer < b.layer
    \/ (a.layer = b.layer /\ ~str_lt(b.name, a.name))

\* x put into the sorted list s behind every element whose key is <= its own
RECURSIVE insert_sorted(_, _)
insert_sorted(s, x) ==
    IF s = <<>> THEN <<x>>
    ELSE IF sort_key_le(s[1], x) THEN <<s[1]>> \o insert_sorted(Tail(s), x)
    ELSE <<x>> \o s

\* components.sort(key=...): a stable sort
RECURSIVE sort_components(_)
sort_components(comps) ==
    IF comps = <<>> THEN <<>>
    ELSE insert_sorted(sort_components(SubSeq(comps, 1, Len(comps) - 1)), comps[Len(comps)])

\* (mutant) the generic table kept in self.platform_services under the unknown key
self_after_parse_components_storing(self, platform_arg) ==
    IF lower(platform_arg) \in DOMAIN self.platform_services THEN self
    ELSE [self EXCEPT !.platform_services =
              [k \in DOMAIN self.platform_services \cup {lower(platform_arg)} |->
                   IF k \in DOMAIN self.platform_services THEN self.platform_services[k]
                   ELSE generic_services]]

\* the instance when parse_components returns: the method assigns to local
\* variables only (platform_patterns, components, added_concepts)
self_after_parse_components(self, platform_arg) == self

\* parse_components with the table's entries scanned in the given order
parse_components_scanning(self, plan_text_arg, platform_arg, order) ==
    sort_components(scan_loop(self, detection_table(self, platform_arg), order, 1, lower(plan_text_arg),
                              boundaries(lower(plan_text_arg)), <<>>))

parse_components(self, plan_text_arg, platform_arg) ==
    parse_components_scanning(self, plan_text_arg, platform_arg,
                              items_order(detection_table(self, platform_arg)))

---------------------------------------------------------------------------
(* build_diagram_text *)

fence_open == "'''text"
fence_close == "'''"

min_box_width == 40

comp_text(comp) == comp.icon \o " " \o comp.name

\* the keys of the dict layers, in insertion order
RECURSIVE layer_keys(_, _)
layer_keys(comps, seen) ==
    IF comps = <<>> THEN seen
    ELSE IF \E j \in 1..Len(seen) : seen[j] = comps[1].layer
         THEN layer_keys(Tail(comps), seen)
         ELSE layer_keys(Tail(comps), Append(seen, comps[1].layer))

\* layers[layer_num]
layer_components(comps, layer_num) == SelectSeq(comps, LAMBDA c : c.layer = layer_num)

\* sum(len(f"{c['icon']} {c['name']}") + 4 for c in comps)
RECURSIVE layer_width(_)
layer_width(comps) ==
    IF comps = <<>> THEN 0
    ELSE Len(comp_text(comps[1])) + 4 + layer_width(Tail(comps))

Max2(a, b) == IF a >= b THEN a ELSE b

\* the loop over layers.values()
RECURSIVE max_label_width(_, _)
max_label_width(comps, keys) ==
    IF keys = <<>> THEN 0
    ELSE Max2(layer_width(layer_components(comps, keys[1])),
              max_label_width(comps, Tail(keys)))

build_box_width(comps, title_arg) ==
    Max2(Max2(Len(title_arg) + 4, max_label_width(comps, layer_keys(comps, <<>>))),
         min_box_width)

\* (mutant) the layer keys in descending order
RECURSIVE sorted_keys_descending(_)
sorted_keys_descending(S) ==
    IF S = {} THEN <<>>
    ELSE LET m == CHOOSE x \in S : \A y \in S : x >= y
         IN  <<m>> \o sorted_keys_descending(S \ {m})

\* sorted(layers.keys())
RECURSIVE sorted_keys(_)
sorted_keys(S) ==
    IF S = {} THEN <<>>
    ELSE LET m == CHOOSE x \in S : \A y \in S : x <= y
         IN  <<m>> \o sorted_keys(S \ {m})

sorted_layers_of(comps) ==
    LET keys == layer_keys(comps, <<>>) IN sorted_keys({keys[j] : j \in 1..Len(keys)})

title_row(title_arg, width) ==
    chars_vertical \o " " \o center(title_arg, width - 2) \o " " \o chars_vertical

component_row(comp, width) ==
    chars_vertical \o " " \o ljust(comp_text(comp), width - 2) \o " " \o chars_vertical

RECURSIVE component_rows(_, _)
component_rows(comps, width) ==
    IF comps = <<>> THEN <<>>
    ELSE <<component_row(comps[1], width)>> \o component_rows(Tail(comps), width)

\* "|" + arrow_down.center(box_width)[1:-1] + "|"
connector_row(width) ==
    chars_vertical \o SliceInner(center(chars_arrow_down, width)) \o chars_vertical

\* (mutant) a connector behind every layer, the last one too
draws_connector_behind_last(i, n_layers) == i <= n_layers

\* whether the loop draws a connector behind the layer of index i (1-based)
draws_connector(i, n_layers) == i < n_layers

\* the loop over enumerate(sorted_layers), from index i on
RECURSIVE layer_rows(_, _, _, _)
layer_rows(comps, sorted_layers, i, width) ==
    IF i > Len(sorted_layers) THEN <<>>
    ELSE component_rows(layer_components(comps, sorted_layers[i]), width)
         \o (IF draws_connector(i, Len(sorted_layers)) THEN <<connector_row(width)>> ELSE <<>>)
         \o layer_rows(comps, sorted_layers, i + 1, width)

border_row(left, width, right) == left \o Repeat(chars_horizontal, width) \o right

\* the list diagram_lines of a non-empty diagram
build_diagram_lines(comps, title_arg, width) ==
    << border_row(box_top_left, width, box_top_right),
       title_row(title_arg, width),
       border_row(box_tee_left, width, box_tee_right) >>
    \o layer_rows(comps, sorted_layers_of(comps), 1, width)
    \o << border_row(box_bottom_left, width, box_bottom_right) >>

no_components_text(title_arg) ==
    fence_open \o "\nNo specific components detected for " \o title_arg \o ".\n" \o fence_close

\* (mutant) the closing fence left out
wrap_code_block_unclosed(lines) == fence_open \o "\n" \o join_lines(lines)

wrap_code_block(lines) == fence_open \o "\n" \o join_lines(lines) \o "\n" \o fence_close

\* (mutant) no early return for an empty list: the box is drawn around nothing
build_diagram_text_run_unguarded(comps, title_arg) ==
    LET width == build_box_width(comps, title_arg)
        lines == build_diagram_lines(comps, title_arg, width)
    IN  [box_width |-> width, diagram_lines |-> lines, returned |-> wrap_code_block(lines)]

\* build_diagram_text, with its locals box_width and diagram_lines
build_diagram_text_run(comps, title_arg) ==
    IF comps = <<>>
    THEN [box_width |-> 0, diagram_lines |-> <<>>, returned |-> no_components_text(title_arg)]
    ELSE LET width == build_box_width(comps, title_arg)
             lines == build_diagram_lines(comps, title_arg, width)
         IN  [box_width |-> width, diagram_lines |-> lines, returned |-> wrap_code_block(lines)]

build_diagram_text(comps, title_arg) == build_diagram_text_run(comps, title_arg).returned

---------------------------------------------------------------------------
(* create_architecture_diagram and generate_ascii_diagram *)

platform_not_specified ==
    fence_open \o "\nError: Target platform not specified.\n" \o fence_close

no_plan_provided ==
    fence_open \o "\nNo architecture plan provided to generate diagram.\n" \o fence_close

platform_must_be_specified ==
    fence_open \o "\nTarget platform (aws, gcp, azure) must be specified.\n" \o fence_close

title_prefix == "Architecture"

full_title(platform_arg) == title_prefix \o " on " \o upper(platform_arg)

\* what a call leaves when it returns before parse_components is entered
returned_early(entered, text) ==
    [calls |-> entered, table_used |-> "", components |-> <<>>, title |-> "",
     box_width |-> 0, diagram_lines |-> <<>>, returned |-> text]

\* create_architecture_diagram, entered behind the calls in entered
create_architecture_diagram_run(self, entered, plan_text_arg, platform_arg) ==
    IF platform_arg = ""
    THEN returned_early(Append(entered, "create_architecture_diagram"), platform_not_specified)
    ELSE LET comps == parse_components(self, plan_text_arg, platform_arg)
             built == build_diagram_text_run(comps, full_title(platform_arg))
         IN  [calls |-> entered \o <<"create_architecture_diagram", "parse_components",
                                     "build_diagram_text">>,
              table_used |-> table_key(self, platform_arg),
              components |-> comps,
              title |-> full_title(platform_arg),
              box_width |-> built.box_width,
              diagram_lines |-> built.diagram_lines,
              returned |-> built.returned]

create_architecture_diagram(self, plan_text_arg, platform_arg) ==
    create_architecture_diagram_run(self, <<>>, plan_text_arg, platform_arg).returned

\* (mutant) the platform checked before the plan text
generate_ascii_diagram_run_platform_first(plan_text_arg, target_platform) ==
    IF target_platform = ""
    THEN returned_early(<<"generate_ascii_diagram">>, platform_must_be_specified)
    ELSE IF plan_text_arg = ""
    THEN returned_early(<<"generate_ascii_diagram">>, no_plan_provided)
    ELSE create_architecture_diagram_run(ASCIIDiagramGenerator, <<"generate_ascii_diagram">>, plan_text_arg, target_platform)

generate_ascii_diagram_run(plan_text_arg, target_platform) ==
    IF plan_text_arg = ""
    THEN returned_early(<<"generate_ascii_diagram">>, no_plan_provided)
    ELSE IF target_platform = ""
    THEN returned_early(<<"generate_ascii_diagram">>, platform_must_be_specified)
    ELSE create_architecture_diagram_run(ASCIIDiagramGenerator, <<"generate_ascii_diagram">>, plan_text_arg, target_platform)

generate_ascii_diagram(plan_text_arg, target_platform) ==
    generate_ascii_diagram_run(plan_text_arg, target_platform).returned

---------------------------------------------------------------------------
(* app/tools.py: query_best_practices *)

\* the value of es_client when the environment variables are not set
es_client_none == "None"

\* the value of es_client when Elasticsearch(...) was built
es_client_built == "Elasticsearch"

\* PLATFORM_INDEX_MAP
PLATFORM_INDEX_MAP == ("aws" :> "aws") @@ ("gcp" :> "gcp") @@ ("azure" :> "azure")

not_configured == "Error: Elasticsearch client is not configured."

\* the f-string of the invalid platform; list(PLATFORM_INDEX_MAP.keys()) formatted
invalid_platform(platform_arg) ==
    "Error: Invalid target platform '" \o platform_arg \o "'. "
    \o "Valid platforms are: ['aws', 'gcp', 'azure']"

no_hits_found == "No specific best practices found. Proceeding with general knowledge."

context_header == "--- RETRIEVED BEST PRACTICES ---\n"

query_failed_prefix == "Error connecting to knowledge base: "

\* str(n) of a natural number
RECURSIVE str_of_nat(_)
str_of_nat(n) ==
    IF n < 10 THEN CharAt(Digits, n + 1)
    ELSE str_of_nat(n \div 10) \o CharAt(Digits, (n % 10) + 1)

\* the two lines the loop adds for hit number i (counted from 0)
hit_lines(i, hit) ==
    "Doc " \o str_of_nat(i + 1) \o " (Source: "
    \o dict_get(hit["_source"], "source_title", "N/A") \o ", Page: "
    \o dict_get(hit["_source"], "page_number", "N/A") \o "):\n"
    \o dict_get(hit["_source"], "content", "No content") \o "\n---\n"

\* the loop over enumerate(hits), from hit number i on: the context built, or the
\* KeyError raised by hit['_source']
RECURSIVE format_hits(_, _, _)
format_hits(hits, i, context) ==
    IF i >= Len(hits) THEN [raised |-> FALSE, value |-> context]
    ELSE IF "_source" \notin DOMAIN hits[i + 1] THEN [raised |-> TRUE, value |-> "'_source'"]
    ELSE format_hits(hits, i + 1, context \o hit_lines(i, hits[i + 1]))

\* the body of the try statement, given what es_client.search did
try_body(outcome) ==
    IF outcome.raised THEN [raised |-> TRUE, value |-> outcome.message]
    ELSE IF outcome.hits = <<>> THEN [raised |-> FALSE, value |-> no_hits_found]
    ELSE format_hits(outcome.hits, 0, context_header)

\* the search issued by query_best_practices
search_request(index_name, requirement_arg) ==
    [index |-> index_name, model_text |-> requirement_arg, size |-> 5]

\* (mutant) the platform looked up before the client is tested
query_best_practices_run_platform_first(client, platform_arg, requirement_arg, outcome) ==
    IF lower(platform_arg) \notin DOMAIN PLATFORM_INDEX_MAP
    THEN [searches |-> <<>>, response |-> "none", propagated |-> FALSE,
          returned |-> invalid_platform(platform_arg)]
    ELSE IF client = es_client_none
    THEN [searches |-> <<>>, response |-> "none", propagated |-> FALSE,
          returned |-> not_configured]
    ELSE [searches |-> <<search_request(PLATFORM_INDEX_MAP[lower(platform_arg)],
                                        requirement_arg)>>,
          response |-> outcome, propagated |-> FALSE,
          returned |-> IF try_body(outcome).raised
                       THEN query_failed_prefix \o try_body(outcome).value
                       ELSE try_body(outcome).value]

\* query_best_practices, given what es_client.search does when it is called
query_best_practices_run(client, platform_arg, requirement_arg, outcome) ==
    IF client = es_client_none
    THEN [searches |-> <<>>, response |-> "none", propagated |-> FALSE,
          returned |-> not_configured]
    ELSE IF lower(platform_arg) \notin DOMAIN PLATFORM_INDEX_MAP
    THEN [searches |-> <<>>, response |-> "none", propagated |-> FALSE,
          returned |-> invalid_platform(platform_arg)]
    ELSE [searches |-> <<search_request(PLATFORM_INDEX_MAP[lower(platform_arg)],
                                        requirement_arg)>>,
          response |-> outcome, propagated |-> FALSE,
          returned |-> IF try_body(outcome).raised
                       THEN query_failed_prefix \o try_body(outcome).value
                       ELSE try_body(outcome).value]

\* no call of query_best_practices
ToolIdle ==
    /\ es_client = es_client_none
    /\ query_platform = ""
    /\ requirement = ""
    /\ tool_pc = "idle"
    /\ searches = <<>>
    /\ response = "none"
    /\ tool_result = ""

---------------------------------------------------------------------------
(* The calls: the arguments are drawn, then one operation runs on them *)

\* the callers of the concurrent calls
Callers == {"caller1", "caller2"}

\* the frame of a caller that has made no call yet
no_frame ==
    [pc |-> "idle", op |-> "", plan_text |-> "", platform |-> "", title |-> "",
     components |-> <<>>, result |-> "", overlapped |-> FALSE, after_other |-> FALSE]

\* the pieces plan texts are made of
Fragments == {" ", "vm", "ware", "S3", "web", "user", "users", "server", "observer", "pub/sub"}

RECURSIVE TextsOf(_)
TextsOf(n) ==
    IF n = 0 THEN {""}
    ELSE LET shorter == TextsOf(n - 1)
         IN  shorter \cup UNION {{t \o f : f \in {g \in Fragments :
                                                      Len(t) + Len(g) <= MaxTextLen}} :
                                  t \in shorter}

\* the plan texts of the documented scenarios, and one that names two concepts of
\* one layer
ScenarioTexts ==
    {"We need a load balancer and an S3 bucket for user uploads", "some servers", "api auth"}

PlanTexts == {t \in TextsOf(MaxFragments) : Len(t) <= MaxTextLen} \cup ScenarioTexts

\* the platform tokens: none, the known ones, one in another case, an unknown one
Platforms == {"", "aws", "gcp", "azure", "AWS", "marsnet"}

\* the titles of the direct calls of build_diagram_text
Titles == {"Plan", "Architecture on MY-PRIVATE-DATACENTER-01"}

Init ==
    /\ plan_text \in PlanTexts
    /\ platform \in Platforms
    /\ pc = "input"
    /\ calls = <<>>
    /\ table_used = ""
    /\ components = <<>>
    /\ title = ""
    /\ box_width = 0
    /\ diagram_lines = <<>>
    /\ result = ""
    /\ generator = ASCIIDiagramGenerator
    /\ frames = [c \in Callers |-> no_frame]
    /\ invocations = 0
    /\ ToolIdle

\* a direct call of parse_components
ParseComponents ==
    /\ pc = "input"
    /\ pc' = "parse_components"
    /\ calls' = <<"parse_components">>
    /\ table_used' = table_key(generator, platform)
    /\ components' = parse_components(generator, plan_text, platform)
    /\ generator' = self_after_parse_components(generator, platform)
    /\ UNCHANGED tool_vars
    /\ UNCHANGED <<plan_text, platform, title, box_width, diagram_lines, result, frames,
                   invocations>>

\* a direct call of build_diagram_text, on the list a parse_components call returned
BuildDiagramText(title_arg) ==
    /\ pc = "parse_components"
    /\ pc' = "build_diagram_text"
    /\ calls' = Append(calls, "build_diagram_text")
    /\ title' = title_arg
    /\ \E built \in {build_diagram_text_run(components, title_arg)} :
           /\ box_width' = built.box_width
           /\ diagram_lines' = built.diagram_lines
           /\ result' = built.returned
    /\ UNCHANGED tool_vars
    /\ UNCHANGED <<plan_text, platform, table_used, components, generator, frames, invocations>>

Returns(pc_after, run, self_after) ==
    /\ pc' = pc_after
    /\ calls' = run.calls
    /\ table_used' = run.table_used
    /\ components' = run.components
    /\ title' = run.title
    /\ box_width' = run.box_width
    /\ diagram_lines' = run.diagram_lines
    /\ result' = run.returned
    /\ generator' = self_after
    /\ UNCHANGED tool_vars
    /\ UNCHANGED <<plan_text, platform, frames, invocations>>

\* a direct call of create_architecture_diagram
CreateArchitectureDiagram ==
    /\ pc = "input"
    /\ \E run \in {create_architecture_diagram_run(generator, <<>>, plan_text, platform)} :
           Returns("create_architecture_diagram", run,
                   IF platform = "" THEN generator
                   ELSE self_after_parse_components(generator, platform))

\* a call of generate_ascii_diagram
GenerateAsciiDiagram ==
    /\ pc = "input"
    /\ \E run \in {generate_ascii_diagram_run(plan_text, platform)} :
           Returns("generate_ascii_diagram", run, generator)

Next ==
    \/ ParseComponents
    \/ \E title_arg \in Titles : BuildDiagramText(title_arg)
    \/ CreateArchitectureDiagram
    \/ GenerateAsciiDiagram

Spec == Init /\ [][Next]_vars

---------------------------------------------------------------------------
(* Concurrent calls: each caller calls generate_ascii_diagram, which builds its   *)
(* own instance, or create_architecture_diagram on the shared instance generator; *)
(* the calls interleave between entry, parse_components and build_diagram_text.   *)

\* the calls the callers make
CallKinds ==
    {[op |-> "generate_ascii_diagram", plan_text |-> "pub/sub", platform |-> "gcp"],
     [op |-> "generate_ascii_diagram", plan_text |-> "user", platform |-> "gcp"],
     [op |-> "generate_ascii_diagram", plan_text |-> "", platform |-> "gcp"],
     [op |-> "create_architecture_diagram", plan_text |-> "pub/sub", platform |-> "gcp"],
     [op |-> "create_architecture_diagram", plan_text |-> "user", platform |-> "marsnet"]}

\* the checks at the entry of a call: the placeholder returned at once, or ""
entry_checks(op, plan_text_arg, platform_arg) ==
    IF op = "generate_ascii_diagram" /\ plan_text_arg = "" THEN no_plan_provided
    ELSE IF op = "generate_ascii_diagram" /\ platform_arg = "" THEN platform_must_be_specified
    ELSE IF platform_arg = "" THEN platform_not_specified
    ELSE ""

in_flight(frame) == frame.pc \in {"parse_components", "build_diagram_text"}

same_call(f, g) == f.op = g.op /\ f.plan_text = g.plan_text /\ f.platform = g.platform

\* the instance a call works on: its own new one, or the shared one
self_of(frame) ==
    IF frame.op = "generate_ascii_diagram" THEN ASCIIDiagramGenerator ELSE generator

InitCalls ==
    /\ plan_text = ""
    /\ platform = ""
    /\ pc = "input"
    /\ calls = <<>>
    /\ table_used = ""
    /\ components = <<>>
    /\ title = ""
    /\ box_width = 0
    /\ diagram_lines = <<>>
    /\ result = ""
    /\ generator = ASCIIDiagramGenerator
    /\ frames = [c \in Callers |-> no_frame]
    /\ invocations = 0
    /\ ToolIdle

\* caller c enters a call: the entry checks, the title
Call(c, kind) ==
    /\ frames[c].pc \in {"idle", "returned"}
    /\ invocations < MaxInvocations
    /\ invocations' = invocations + 1
    /\ LET early == entry_checks(kind.op, kind.plan_text, kind.platform)
           others == \E d \in Callers \ {c} : in_flight(frames[d])
           mine == [pc |-> IF early = "" THEN "parse_components" ELSE "returned",
                    op |-> kind.op,
                    plan_text |-> kind.plan_text,
                    platform |-> kind.platform,
                    title |-> IF early = "" THEN full_title(kind.platform) ELSE "",
                    components |-> <<>>,
                    result |-> early,
                    overlapped |-> others /\ early = "",
                    after_other |-> frames[c].pc = "returned" /\ ~same_call(frames[c], kind)]
       IN  frames' = [d \in Callers |->
                         IF d = c THEN mine
                         ELSE IF in_flight(frames[d]) /\ early = ""
                              THEN [frames[d] EXCEPT !.overlapped = TRUE]
                              ELSE frames[d]]
    /\ UNCHANGED tool_vars
    /\ UNCHANGED <<plan_text, platform, pc, calls, table_used, components, title, box_width,
                   diagram_lines, result, generator>>

\* the call of caller c runs parse_components
ParseStep(c) ==
    /\ frames[c].pc = "parse_components"
    /\ frames' = [frames EXCEPT ![c].pc = "build_diagram_text",
                                ![c].components =
                                    parse_components(self_of(frames[c]), frames[c].plan_text,
                                                     frames[c].platform)]
    /\ generator' = IF frames[c].op = "generate_ascii_diagram" THEN generator
                    ELSE self_after_parse_components(generator, frames[c].platform)
    /\ UNCHANGED tool_vars
    /\ UNCHANGED <<plan_text, platform, pc, calls, table_used, components, title, box_width,
                   diagram_lines, result, invocations>>

\* the call of caller c runs build_diagram_text and returns
BuildStep(c) ==
    /\ frames[c].pc = "build_diagram_text"
    /\ frames' = [frames EXCEPT ![c].pc = "returned",
                                ![c].result =
                                    build_diagram_text(frames[c].components, frames[c].title)]
    /\ UNCHANGED tool_vars
    /\ UNCHANGED <<plan_text, platform, pc, calls, table_used, components, title, box_width,
                   diagram_lines, result, generator, invocations>>

NextCalls ==
    \/ \E c \in Callers, kind \in CallKinds : Call(c, kind)
    \/ \E c \in Callers : ParseStep(c)
    \/ \E c \in Callers : BuildStep(c)

SpecCalls == InitCalls /\ [][NextCalls]_vars

---------------------------------------------------------------------------
(* Calls of query_best_practices: the client is configured or not, the arguments  *)
(* are drawn, and the search, when it is issued, raises or responds.              *)

\* A response carries at most MaxHits hits.
MaxHits == 2

\* the hits a response is made of: all fields, no field, no '_source'
Hits ==
    {[_source |-> [source_title |-> "Well-Architected", page_number |-> "12",
                   content |-> "Encrypt data at rest."]],
     [_source |-> [other |-> ""]],
     [_id |-> "7"]}

RECURSIVE HitLists(_)
HitLists(n) ==
    IF n = 0 THEN {<<>>}
    ELSE HitLists(n - 1) \cup {Append(l, h) : l \in {m \in HitLists(n - 1) : Len(m) = n - 1},
                                               h \in Hits}

\* what es_client.search does: it raises an exception or returns a response
SearchOutcomes ==
    {[raised |-> TRUE, message |-> m, hits |-> <<>>] : m \in {"Connection timed out", ""}}
    \cup {[raised |-> FALSE, message |-> "", hits |-> l] : l \in HitLists(MaxHits)}

ToolPlatforms == {"", "aws", "GCP", "Azure", "azure", "marsnet"}

Requirements == {"secure database", ""}

InitTools ==
    /\ plan_text = ""
    /\ platform = ""
    /\ pc = "input"
    /\ calls = <<>>
    /\ table_used = ""
    /\ components = <<>>
    /\ title = ""
    /\ box_width = 0
    /\ diagram_lines = <<>>
    /\ result = ""
    /\ generator = ASCIIDiagramGenerator
    /\ frames = [c \in Callers |-> no_frame]
    /\ invocations = 0
    /\ es_client \in {es_client_none, es_client_built}
    /\ query_platform \in ToolPlatforms
    /\ requirement \in Requirements
    /\ tool_pc = "called"
    /\ searches = <<>>
    /\ response = "none"
    /\ tool_result = ""

\* a call of query_best_practices
QueryBestPractices ==
    /\ tool_pc = "called"
    /\ \E outcome \in SearchOutcomes :
           \E run \in {query_best_practices_run(es_client, query_platform, requirement,
                                                 outcome)} :
               /\ tool_pc' = IF run.propagated THEN "raised" ELSE "returned"
               /\ searches' = run.searches
               /\ response' = run.response
               /\ tool_result' = run.returned
    /\ UNCHANGED <<es_client, query_platform, requirement>>
    /\ UNCHANGED render_vars

NextTools == QueryBestPractices

SpecTools == InitTools /\ [][NextTools]_vars

---------------------------------------------------------------------------
(* The methods called on an instance whose glyph table or layer table lacks an   *)
(* entry.  __init__ gives every concept of the detection tables both entries;    *)
(* the tables are plain attributes of the instance, and an instance with an      *)
(* entry less is what a concept added to a detection table alone amounts to.     *)

\* the dict d without the keys in gone
dict_without(d, gone) == [k \in DOMAIN d \ gone |-> d[k]]

\* the concepts whose entry may be missing
DroppedConcepts == {"user", "iam", "queue", "storage_object"}

\* no entry or one entry missing
Dropped == {{}} \cup {{c} : c \in DroppedConcepts}

CatalogTexts == {"user", "users user", "pub/sub", "web S3", "S3 user"}

InitIncomplete ==
    /\ plan_text \in CatalogTexts
    /\ platform \in Platforms
    /\ pc = "input"
    /\ calls = <<>>
    /\ table_used = ""
    /\ components = <<>>
    /\ title = ""
    /\ box_width = 0
    /\ diagram_lines = <<>>
    /\ result = ""
    /\ \E no_icon \in Dropped, no_layer \in Dropped :
           generator = [service_icons |-> dict_without(service_icons, no_icon),
                        platform_services |-> platform_services,
                        layer_priority |-> dict_without(layer_priority, no_layer)]
    /\ frames = [c \in Callers |-> no_frame]
    /\ invocations = 0
    /\ ToolIdle

NextMethods ==
    \/ ParseComponents
    \/ \E title_arg \in Titles : BuildDiagramText(title_arg)
    \/ CreateArchitectureDiagram

SpecIncomplete == InitIncomplete /\ [][NextMethods]_vars

---------------------------------------------------------------------------
(* Vocabulary of the properties *)

starts_with(s, prefix) == Len(s) >= Len(prefix) /\ SubSeq(s, 1, Len(prefix)) = prefix

ends_with(s, suffix) ==
    Len(s) >= Len(suffix) /\ SubSeq(s, Len(s) - Len(suffix) + 1, Len(s)) = suffix

contains(s, part) ==
    \E i \in 1..Len(s) : i + Len(part) - 1 <= Len(s) /\ SubSeq(s, i, i + Len(part) - 1) = part

\* the phrases one alternative of a pattern stands for: its atoms from k on,
\* without the \b anchors, each optional atom present or absent
RECURSIVE phrases(_, _)
phrases(alt, k) ==
    IF k > Len(alt) THEN {""}
    ELSE IF alt[k] = "\\b" THEN phrases(alt, k + 1)
    ELSE IF alt[k] = "\\s?" THEN phrases(alt, k + 1) \cup {" " \o r : r \in phrases(alt, k + 1)}
    ELSE IF Len(alt[k]) = 2 /\ CharAt(alt[k], 2) = "?"
         THEN phrases(alt, k + 1) \cup {CharAt(alt[k], 1) \o r : r \in phrases(alt, k + 1)}
    ELSE {alt[k] \o r : r \in phrases(alt, k + 1)}

\* the synonym phrases of a pattern
synonyms_of(pattern) == UNION {phrases(pattern[a], 1) : a \in 1..Len(pattern)}

\* phrase occurs in text with no word character right before or right behind it
occurs_as_whole_phrase(text, phrase) ==
    \E i \in 1..Len(text) :
        /\ i + Len(phrase) - 1 <= Len(text)
        /\ SubSeq(text, i, i + Len(phrase) - 1) = phrase
        /\ ~word_at(text, i - 1)
        /\ ~word_at(text, i + Len(phrase))

\* the entry of a table for a concept
entry_of(table, concept) == table[CHOOSE k \in 1..Len(table) : table[k].concept = concept]

\* the concepts of the table whose pattern matches the plan text
matching_concepts(table, text) ==
    {table[k].concept : k \in {j \in 1..Len(table) : re_search(table[j].pattern, lower(text))}}

\* the rows of a drawn diagram between the separator and the bottom border
layer_part(lines) == SubSeq(lines, 4, Len(lines) - 1)

\* the rows of a drawn diagram between the top and the bottom border, the separator left out
content_rows(lines) == {lines[i] : i \in (2..(Len(lines) - 1)) \ {3}}

\* what a row holds between its two border glyphs
interior_width(row) == Len(row) - 2 * Len(chars_vertical)

is_connector(row) == contains(row, chars_arrow_down)

shows_component(row, comp) == starts_with(row, chars_vertical \o " " \o comp_text(comp))

\* the rows the layout contract asks for: the components in list order, one
\* connector wherever the next component lies in another layer
RECURSIVE expected_rows(_, _)
expected_rows(comps, j) ==
    IF j > Len(comps) THEN <<>>
    ELSE <<[connector |-> FALSE, comp |-> comps[j]]>>
         \o (IF j < Len(comps) /\ comps[j + 1].layer # comps[j].layer
             THEN <<[connector |-> TRUE, comp |-> comps[j]]>> ELSE <<>>)
         \o expected_rows(comps, j + 1)

drawn == diagram_lines # <<>>

---------------------------------------------------------------------------
(* C1 *)

\* C1 (width invariant): in every drawn diagram, every content row between the
\* top and the bottom border (the title row, each component row, each connector
\* row) is exactly box_width wide between its border glyphs.
C1_ContentRowsFillBox ==
    drawn => \A row \in content_rows(diagram_lines) : interior_width(row) = box_width

\* what the code does keep: the title row and the component rows fill the box,
\* and every connector row is two short
C1_OnlyConnectorsFallShort ==
    drawn => \A row \in content_rows(diagram_lines) :
                 interior_width(row) = (IF is_connector(row) THEN box_width - 2 ELSE box_width)

---------------------------------------------------------------------------
(* C2 *)

\* C2 (phrase-boundary matching): whatever table parse_components scans, a concept
\* is in the returned list only if one of its synonym phrases occurs in the
\* lower-cased plan text as a whole word or whole phrase.
C2_DetectedOnlyByWholePhrase ==
    pc = "parse_components" =>
        \A j \in 1..Len(components) :
            \E phrase \in synonyms_of(entry_of(detection_table(generator, platform),
                                               components[j].concept).pattern) :
                occurs_as_whole_phrase(lower(plan_text), phrase)

\* the same for the tables of the named platforms alone, whose patterns are anchored
C2_NamedTablesMatchWholePhrases ==
    (pc = "parse_components" /\ table_used # "generic") =>
        \A j \in 1..Len(components) :
            \E phrase \in synonyms_of(entry_of(detection_table(generator, platform),
                                               components[j].concept).pattern) :
                occurs_as_whole_phrase(lower(plan_text), phrase)

---------------------------------------------------------------------------
(* C3 *)

\* C3 (ordering invariant): in a drawn diagram the component rows stand in the
\* order of the list, whose layers ascend; exactly one connector row stands
\* between the rows of two adjacent layers, none inside a layer and none behind
\* the last layer.
C3_LayersInOrderOneConnectorBetween ==
    drawn =>
        LET rows == layer_part(diagram_lines)
            want == expected_rows(components, 1)
        IN  /\ \A j \in 1..Len(components) : \A k \in j..Len(components) :
                   components[j].layer <= components[k].layer
            /\ Len(rows) = Len(want)
            /\ \A i \in 1..Len(want) :
                   IF want[i].connector THEN is_connector(rows[i])
                   ELSE ~is_connector(rows[i]) /\ shows_component(rows[i], want[i].comp)
            /\ ~is_connector(rows[Len(rows)])

\* a drawn diagram of several layers, one of them holding two components
C3_Witness ==
    /\ drawn
    /\ Cardinality({components[j].layer : j \in 1..Len(components)}) >= 2
    /\ \E j \in 1..(Len(components) - 1) : components[j].layer = components[j + 1].layer
    /\ \E i \in 1..Len(diagram_lines) : is_connector(diagram_lines[i])

---------------------------------------------------------------------------
(* C4 *)

sorted_by_layer_then_name(comps) ==
    \A j \in 1..Len(comps) : \A k \in (j + 1)..Len(comps) :
        \/ comps[j].layer < comps[k].layer
        \/ (comps[j].layer = comps[k].layer /\ ~str_lt(comps[k].name, comps[j].name))

\* the table's own scan order and its reverse
scan_orders(table) ==
    {items_order(table), [k \in 1..Len(table) |-> Len(table) + 1 - k]}

\* C4: the list parse_components returns is sorted by layer, then by display
\* name, and is the same list in whatever order the table's concepts are scanned.
C4_SortedWhateverTheScanOrder ==
    pc = "parse_components" =>
        /\ sorted_by_layer_then_name(components)
        /\ \A order \in scan_orders(detection_table(generator, platform)) :
               parse_components_scanning(generator, plan_text, platform, order) = components

\* what the code does keep: every scan order gives a sorted list of the same components
C4_SortedSameSetWhateverTheScanOrder ==
    pc = "parse_components" =>
        \A order \in scan_orders(detection_table(generator, platform)) :
            LET other == parse_components_scanning(generator, plan_text, platform, order)
            IN  /\ sorted_by_layer_then_name(other)
                /\ {other[j] : j \in 1..Len(other)} = {components[j] : j \in 1..Len(components)}

---------------------------------------------------------------------------
(* C5 *)

\* C5 (uniqueness and completeness): the concepts of the returned list are exactly
\* the concepts of the scanned table whose pattern matches the plan text, and no
\* concept stands in the list twice.
C5_EachMatchingConceptOnce ==
    pc = "parse_components" =>
        /\ concepts_of(components) = matching_concepts(detection_table(generator, platform), plan_text)
        /\ Cardinality(concepts_of(components)) = Len(components)

\* a synonym of the concept compute occurs twice in the text
C5_Witness ==
    /\ pc = "parse_components"
    /\ plan_text = "vm vm"
    /\ platform = "gcp"
    /\ Len(components) = 1
    /\ components[1].concept = "compute"

---------------------------------------------------------------------------
(* C6 *)

\* C6 (idempotence of the concept set): appending one more occurrence of a synonym
\* of a concept that is already detected leaves the returned list as it is.
C6_DuplicateSynonymChangesNothing ==
    pc = "parse_components" =>
        \A j \in 1..Len(components) :
            \A phrase \in synonyms_of(entry_of(detection_table(generator, platform),
                                               components[j].concept).pattern) :
                parse_components(generator, plan_text \o " " \o phrase, platform) = components

---------------------------------------------------------------------------
(* C7 *)

known_platforms == {"aws", "gcp", "azure"}

\* the known platforms the token equals when letter case is ignored
canonical_of(token) == {k \in known_platforms : upper(k) = upper(token)}

\* C7 (fallback property): for a token that is no known platform when letter case
\* is ignored, parse_components scans the generic table; for any other token it
\* scans the table of the canonical lower-case spelling and returns what it
\* returns for that spelling.
C7_FallbackAndCaseInsensitiveTable ==
    pc = "parse_components" =>
        IF canonical_of(platform) = {}
        THEN /\ table_used = "generic"
             /\ components = sort_components(
                    scan_loop(generator, generic_services, items_order(generic_services), 1,
                              lower(plan_text), boundaries(lower(plan_text)), <<>>))
             /\ concepts_of(components) \subseteq
                    {"user", "load_balancer", "compute", "database_sql", "storage_object"}
        ELSE \A k \in canonical_of(platform) :
                 /\ table_used = k
                 /\ components = parse_components(generator, plan_text, k)

\* an upper-case token of a known platform, with something detected
C7_Witness ==
    /\ pc = "parse_components"
    /\ platform = "AWS"
    /\ table_used = "aws"
    /\ components # <<>>

---------------------------------------------------------------------------
(* C8 *)

\* C8 (missing required input): generate_ascii_diagram returns the fixed "no plan
\* provided" block for an empty plan text whatever the platform, and the fixed
\* "platform must be specified" block for a non-empty plan text with an empty
\* platform; in both cases it enters neither extraction nor layout.
C8_MissingInputPlaceholders ==
    pc = "generate_ascii_diagram" =>
        /\ plan_text = "" =>
               /\ result = "'''text\nNo architecture plan provided to generate diagram.\n'''"
               /\ calls = <<"generate_ascii_diagram">>
        /\ (plan_text # "" /\ platform = "") =>
               /\ result = "'''text\nTarget platform (aws, gcp, azure) must be specified.\n'''"
               /\ calls = <<"generate_ascii_diagram">>

\* both arguments empty: the plan text is what is reported missing
C8_Witness ==
    /\ pc = "generate_ascii_diagram"
    /\ plan_text = ""
    /\ platform = ""
    /\ result = no_plan_provided

---------------------------------------------------------------------------
(* C9 *)

\* C9 (no concepts detected): for a non-empty plan text and a non-empty platform
\* with no pattern of the scanned table matching, generate_ascii_diagram returns
\* the "no components detected" block naming the title: not an empty string and
\* not a box without component rows.
C9_NothingDetectedPlaceholder ==
    (/\ pc = "generate_ascii_diagram"
     /\ plan_text # ""
     /\ platform # ""
     /\ matching_concepts(detection_table(generator, platform), plan_text) = {}) =>
        /\ result = "'''text\nNo specific components detected for Architecture on "
                    \o upper(platform) \o ".\n'''"
        /\ result # ""
        /\ ~drawn
        /\ ~contains(result, chars_horizontal)

\* "ware" names nothing of the gcp table
C9_Witness ==
    /\ pc = "generate_ascii_diagram"
    /\ plan_text = "ware"
    /\ platform = "gcp"
    /\ components = <<>>
    /\ result # ""

---------------------------------------------------------------------------
(* C10 *)

\* C10 (totality and framing): whatever the two arguments, generate_ascii_diagram
\* returns a string that opens with the fence line and closes with the fence
\* marker, be its content a box or a placeholder message.
C10_ResultIsFenced ==
    pc = "generate_ascii_diagram" =>
        /\ starts_with(result, "'''text\n")
        /\ ends_with(result, "\n'''")

\* a call that returned a drawn box
C10_Witness ==
    /\ pc = "generate_ascii_diagram"
    /\ drawn
    /\ Len(components) >= 2

---------------------------------------------------------------------------
(* C13 *)

scenario_a_text == "We need a load balancer and an S3 bucket for user uploads"

\* the rows of the diagram that show a component of the concept
rows_of(concept) ==
    {i \in 1..Len(diagram_lines) :
         \E j \in 1..Len(components) :
             /\ components[j].concept = concept
             /\ shows_component(diagram_lines[i], components[j])}

\* C13 (scenario A): for the plan text of scenario A on aws, user, load_balancer
\* and storage_object are among the detected concepts and the diagram shows each
\* of them in a row, the user row above the load_balancer row above the
\* storage_object row.
C13_ScenarioA ==
    (/\ plan_text = scenario_a_text
     /\ platform = "aws"
     /\ pc \in {"create_architecture_diagram", "generate_ascii_diagram"}) =>
        /\ {"user", "load_balancer", "storage_object"} \subseteq concepts_of(components)
        /\ drawn
        /\ \A c \in {"user", "load_balancer", "storage_object"} : rows_of(c) # {}
        /\ \A u \in rows_of("user") : \A b \in rows_of("load_balancer") :
               \A o \in rows_of("storage_object") : u < b /\ b < o

\* scenario A rendered by generate_ascii_diagram
C13_Witness ==
    /\ plan_text = scenario_a_text
    /\ platform = "aws"
    /\ pc = "generate_ascii_diagram"
    /\ drawn
    /\ rows_of("user") # {} /\ rows_of("load_balancer") # {} /\ rows_of("storage_object") # {}

---------------------------------------------------------------------------
(* C14 *)

\* C14 (scenario C): for the plan text "some servers" and the platform "marsnet"
\* the generic table is scanned and compute is the one concept detected: user,
\* load_balancer, database_sql and storage_object are absent.
C14_ScenarioC ==
    (plan_text = "some servers" /\ platform = "marsnet" /\ pc # "input") =>
        /\ table_used = "generic"
        /\ concepts_of(components) = {"compute"}
        /\ Len(components) = 1
        /\ components[1].name = "Compute"

\* scenario C after parse_components
C14_Witness ==
    /\ plan_text = "some servers"
    /\ platform = "marsnet"
    /\ pc = "parse_components"
    /\ table_used = "generic"
    /\ components # <<>>

---------------------------------------------------------------------------
(* C15 *)

label_padding == 4

\* the width of the widest single "glyph + name" label of the list
RECURSIVE widest_label(_)
widest_label(comps) ==
    IF comps = <<>> THEN 0
    ELSE Max2(Len(comp_text(comps[1])), widest_label(Tail(comps)))

\* C15 (interior width formula): the box width of a drawn diagram is the largest
\* of the title length plus padding, the widest single label plus padding and the
\* floor width; it does not grow with the number of components of a layer.
C15_WidthIsWidestSingleLabel ==
    drawn =>
        box_width = Max2(Len(title) + label_padding,
                         Max2(widest_label(components) + label_padding, min_box_width))

\* what holds instead: the second term is the largest sum, over the components of
\* one layer, of label width plus padding
C15_WidthIsWidestLayerSum ==
    drawn =>
        LET layers == {components[j].layer : j \in 1..Len(components)}
            sum_of(l) == LET in_layer == layer_components(components, l)
                             total[n \in 0..Len(in_layer)] ==
                                 IF n = 0 THEN 0
                                 ELSE total[n - 1] + Len(comp_text(in_layer[n])) + label_padding
                         IN  total[Len(in_layer)]
        IN  /\ \A l \in layers : box_width >= sum_of(l)
            /\ box_width >= Len(title) + label_padding
            /\ box_width >= min_box_width
            /\ \/ box_width = Len(title) + label_padding
               \/ box_width = min_box_width
               \/ \E l \in layers : box_width = sum_of(l)

---------------------------------------------------------------------------
(* C16 *)

\* the component has no entry in the layer table of the instance
unplaced(comp) == comp.concept \notin DOMAIN generator.layer_priority

\* the rows of the diagram that show the component
rows_showing(comp) ==
    {i \in 1..Len(diagram_lines) : shows_component(diagram_lines[i], comp)}

\* C16 (default substitution): a detected concept without an entry in the glyph
\* table carries the unknown glyph, one without an entry in the layer table
\* carries the layer 99, which is above every layer of the layer table, so that
\* its row stands below the rows of all placed components; extraction returns
\* its list and layout returns its diagram all the same.
C16_DefaultGlyphAndLayer ==
    /\ \A c \in DOMAIN generator.layer_priority :
           generator.layer_priority[c] < unplaced_layer
    /\ table_used # "" =>
           /\ concepts_of(components) =
                  matching_concepts(detection_table(generator, platform), plan_text)
           /\ \A j \in 1..Len(components) :
                  /\ components[j].icon =
                         (IF components[j].concept \in DOMAIN generator.service_icons
                          THEN generator.service_icons[components[j].concept]
                          ELSE unknown_icon)
                  /\ components[j].layer =
                         (IF unplaced(components[j]) THEN unplaced_layer
                          ELSE generator.layer_priority[components[j].concept])
    /\ (pc \in {"build_diagram_text", "create_architecture_diagram"} /\ components # <<>>) =>
           /\ drawn
           /\ starts_with(result, fence_open)
           /\ \A j \in 1..Len(components) : rows_showing(components[j]) # {}
           /\ \A j, k \in 1..Len(components) :
                  (unplaced(components[j]) /\ ~unplaced(components[k])) =>
                      \A a \in rows_showing(components[j]) :
                          \A b \in rows_showing(components[k]) : b < a

\* a drawn diagram with a placed component, a component without layer entry and
\* a component without glyph entry
C16_Witness ==
    /\ pc = "create_architecture_diagram"
    /\ drawn
    /\ \E j, k \in 1..Len(components) :
           /\ unplaced(components[j]) /\ components[j].layer = unplaced_layer
           /\ ~unplaced(components[k])
    /\ \E j \in 1..Len(components) :
           /\ components[j].concept \notin DOMAIN generator.service_icons
           /\ components[j].icon = unknown_icon

---------------------------------------------------------------------------
(* C11 *)

\* C11 (determinism): two calls with the same arguments return the same string,
\* whatever calls were made before them.
C11_SameArgumentsSameOutput ==
    \A c, d \in Callers :
        (/\ frames[c].pc = "returned"
         /\ frames[d].pc = "returned"
         /\ same_call(frames[c], frames[d])) =>
            frames[c].result = frames[d].result

\* two returned calls of generate_ascii_diagram with the same arguments and a
\* drawn diagram, one of them made behind a call with other arguments
C11_Witness ==
    \E c, d \in Callers :
        /\ c # d
        /\ frames[c].pc = "returned" /\ frames[d].pc = "returned"
        /\ same_call(frames[c], frames[d])
        /\ frames[c].op = "generate_ascii_diagram"
        /\ frames[c].components # <<>>
        /\ frames[c].after_other
        /\ frames[c].result = frames[d].result

---------------------------------------------------------------------------
(* C12 *)

\* what the call returns when it runs alone on an instance as __init__ builds it
alone(frame) ==
    IF frame.op = "generate_ascii_diagram"
    THEN generate_ascii_diagram(frame.plan_text, frame.platform)
    ELSE create_architecture_diagram(ASCIIDiagramGenerator, frame.plan_text, frame.platform)

\* C12 (independence of calls): however the calls interleave, a returned call
\* has returned what it returns when run alone, and the catalog tables of the
\* shared instance are what __init__ built.
C12_CallsIndependentCatalogUntouched ==
    /\ generator = ASCIIDiagramGenerator
    /\ \A c \in Callers : frames[c].pc = "returned" => frames[c].result = alone(frames[c])

\* two returned calls with different arguments that were in flight together, one
\* of them on the shared instance through the generic table
C12_Witness ==
    \E c, d \in Callers :
        /\ frames[c].pc = "returned" /\ frames[d].pc = "returned"
        /\ frames[c].overlapped /\ frames[d].overlapped
        /\ ~same_call(frames[c], frames[d])
        /\ frames[c].op = "create_architecture_diagram"
        /\ frames[c].platform = "marsnet"
        /\ frames[c].components # <<>> /\ frames[d].components # <<>>

---------------------------------------------------------------------------
(* C17 *)

known_index(platform_arg) == lower(platform_arg) \in {"aws", "gcp", "azure"}

\* C17 (query_best_practices): a search is issued only with a configured client
\* and a platform that is aws, gcp or azure when letter case is ignored, and then
\* once, on the index of that platform; without a client the "not configured"
\* string is returned whatever the platform; with a client and an unknown platform
\* the "invalid target platform" string is returned; an exception of the search
\* comes back as an error string and the call returns.
C17_SearchOnlyWhenConfiguredAndKnown ==
    tool_pc # "called" =>
        /\ tool_pc = "returned"
        /\ searches # <<>> <=> (es_client # es_client_none /\ known_index(query_platform))
        /\ searches # <<>> =>
               /\ Len(searches) = 1
               /\ searches[1].index = lower(query_platform)
               /\ searches[1].model_text = requirement
        /\ es_client = es_client_none =>
               tool_result = "Error: Elasticsearch client is not configured."
        /\ (es_client # es_client_none /\ ~known_index(query_platform)) =>
               starts_with(tool_result,
                           "Error: Invalid target platform '" \o query_platform \o "'")
        /\ (searches # <<>> /\ response.raised) =>
               tool_result = "Error connecting to knowledge base: " \o response.message

\* a search on the gcp index, asked for with the token GCP, that raised
C17_Witness ==
    /\ tool_pc = "returned"
    /\ es_client = es_client_built
    /\ query_platform = "GCP"
    /\ Len(searches) = 1
    /\ searches[1].index = "gcp"
    /\ response.raised
    /\ tool_result = "Error connecting to knowledge base: Connection timed out"

=============================================================================
